---- MODULE Spec2Model ----
(***************************************************************************)
(* A model of executor.go of dynago: the construction of an AwsExecutor    *)
(* from an ExecutorConfig, the request path makeRequest /                  *)
(* MakeRequestUnmarshal, and the schema view returned by SchemaExecutor.   *)
(*                                                                         *)
(* Strings are TLA+ strings.  A []byte holding JSON is a sequence of JSON  *)
(* tokens.  Objects that the Go code reaches through pointers              *)
(* (AwsExecutor, aws.RequestMaker, aws.AwsSigner) live in sequences        *)
(* indexed by their address.                                               *)
(***************************************************************************)
EXTENDS Integers, Sequences, FiniteSets, TLC

VARIABLES
    callerConfig,   \* the ExecutorConfig variable owned by the caller
    executors,      \* heap of AwsExecutor: executors[a].Requester
    requestMakers,  \* heap of aws.RequestMaker built at executor.go:69
    signers,        \* heap of aws.AwsSigner built at executor.go:62
    constructed,    \* history: per executor, the config received and the
                    \* endpoint handed to aws.FixEndpointUrl
    views,          \* the set of awsSchemaExecutor values handed out so far
    viewOrigin,     \* history: the pairs <<view, executor it was obtained from>>
    writer,         \* a goroutine assigning the exported Requester field
    pc,             \* per calling goroutine: position in MakeRequestUnmarshal
    recv,           \* per goroutine: the receiver e of the call
    via,            \* history: the view the call was made through, if any
    raced,          \* history: an assignment of Requester overlapped the
                    \* call's read of the field
    method,         \* per goroutine: argument method
    document,       \* per goroutine: argument document
    dest,           \* per goroutine: the value dest points to
    dest0,          \* history: dest as it was when the call started
    buf,            \* per goroutine: makeRequest's local buf
    req,            \* per goroutine: the interface value loaded from e.Requester
    body,           \* per goroutine: local body of MakeRequestUnmarshal
    err,            \* per goroutine: the named result err
    invocations,    \* history: per goroutine, the MakeRequest invocations of
                    \* the current call, in order
    unmarshaled     \* history: per goroutine, the bytes given to json.Unmarshal
                    \* by the current call, in order

vars == <<callerConfig, executors, requestMakers, signers, constructed, views,
          viewOrigin, writer, pc, recv, via, raced, method, document, dest, dest0, buf,
          req, body, err, invocations, unmarshaled>>

heapVars == <<executors, requestMakers, signers, constructed>>
viewVars == <<views, viewOrigin>>
callVars == <<pc, recv, via, raced, method, document, dest, dest0, buf, req, body, err,
              invocations, unmarshaled>>

-----------------------------------------------------------------------------
(* Bounds of the model *)

\* calling goroutines
NumProcs == 2
\* executors constructed in one run
MaxExecutors == 2
\* largest key of a request document
MaxKey == 2

Procs == 1..NumProcs

Nil == "nil"
\* a nil []byte: no bytes
NilBytes == <<>>

-----------------------------------------------------------------------------
(* ExecutorConfig, executor.go:45-54 *)

Regions == {"us-east-1", "eu-west-1"}

\* Endpoints written without a trailing slash; with one appended they end in it.
EndpointStems == {"http://localhost:8000"}
                   \cup {"https://dynamodb." \o r \o ".amazonaws.com" : r \in Regions}

ExplicitEndpoints == {"http://localhost:8000"}

\* the credentials used in each region: permanent ones in the first,
\* temporary ones with a session token in the second
Credentials(r) ==
    IF r = "us-east-1"
    THEN [AccessKey |-> "AKIA1", SecretKey |-> "secret1", SessionToken |-> ""]
    ELSE [AccessKey |-> "ASIA2", SecretKey |-> "secret2", SessionToken |-> "token2"]

ExecutorConfig ==
    { [Region |-> r, AccessKey |-> Credentials(r).AccessKey,
       SecretKey |-> Credentials(r).SecretKey,
       SessionToken |-> Credentials(r).SessionToken, Endpoint |-> ep] :
         r \in Regions, ep \in {""} \cup ExplicitEndpoints }

-----------------------------------------------------------------------------
(* NewAwsExecutor, executor.go:57-78 *)
\* a slip in the template of line 59: the scheme without TLS
DefaultEndpointPlainHttp(config) == "http://dynamodb." \o config.Region \o ".amazonaws.com/"

\* executor.go:59: the endpoint derived from the region
DefaultEndpoint(config) == "https://dynamodb." \o config.Region \o ".amazonaws.com/"

\* executor.go:58-60: the function's own copy of config after defaulting
LocalConfig(config) ==
    IF config.Endpoint = ""
    THEN [config EXCEPT !.Endpoint = DefaultEndpoint(config)]
    ELSE config

\* executor.go:57: config is received by value, so the assignment of line 59
\* reaches the copy `local` only and the caller keeps `config`
CallerConfigAfter(config, local) == config

\* executor.go:70: the argument of aws.FixEndpointUrl
FixEndpointArg(config) == LocalConfig(config).Endpoint
\* a slip in lines 62-68: the session token is left out
AwsSignerNoToken(config) ==
    [Region       |-> LocalConfig(config).Region,
     AccessKey    |-> LocalConfig(config).AccessKey,
     SecretKey    |-> LocalConfig(config).SecretKey,
     SessionToken |-> "",
     Service      |-> "dynamodb"]

\* executor.go:62-68
AwsSigner(config) ==
    [Region       |-> LocalConfig(config).Region,
     AccessKey    |-> LocalConfig(config).AccessKey,
     SecretKey    |-> LocalConfig(config).SecretKey,
     SessionToken |-> LocalConfig(config).SessionToken,
     Service      |-> "dynamodb"]

\* aws.FixEndpointUrl (internal/aws): an endpoint without a path gets "/"
FixEndpointUrl(endpoint) ==
    IF endpoint \in EndpointStems THEN endpoint \o "/" ELSE endpoint

\* executor.go:69-76; signerAddr is &signer.  The debug fields copy the
\* package's debug settings and play no part in what is modelled here.
RequestMaker(config, signerAddr) ==
    [Endpoint   |-> FixEndpointUrl(FixEndpointArg(config)),
     Signer     |-> signerAddr,
     BuildError |-> "buildError"]

\* An AwsRequester interface value is two words: the dynamic type and the
\* pointer to the data.
TypeRequestMaker == "*aws.RequestMaker"
TypeFake == "*fakeRequester"
\* addresses of requesters of another type, supplied by the caller
FakeRequesters == {101}

Iface(tab, data) == [tab |-> tab, data |-> data]
RequestMakerPtr(addr) == [type |-> TypeRequestMaker, addr |-> addr]
FakePtr(addr) == [type |-> TypeFake, addr |-> addr]

\* executor.go:77: &AwsExecutor{requester}
AwsExecutor(requesterAddr) ==
    [Requester |-> Iface(TypeRequestMaker, RequestMakerPtr(requesterAddr))]

\* An interface value whose two words come from one assignment
WellFormed(v) == v.tab = v.data.type

-----------------------------------------------------------------------------
(* encoding/json as executor.go uses it *)

Documents == { [Key |-> k] : k \in 1..MaxKey }
\* a document json.Marshal rejects (it holds a channel or a function)
Unmarshalable == [Chan |-> TRUE]

ErrMarshal == "json.UnsupportedTypeError"
ErrSyntax == "json.SyntaxError"
ErrType == "json.UnmarshalTypeError"
ErrRequester == "dynago.Error"

Quote(s) == "\"" \o s \o "\""

\* json.Marshal, executor.go:92
Marshal(doc) ==
    IF doc = Unmarshalable
    THEN [buf |-> NilBytes, err |-> ErrMarshal]
    ELSE [buf |-> <<"{", Quote("Key"), ":", ToString(doc.Key), "}">>, err |-> Nil]

Numbers == 0..(MaxKey + 1)
NumberTokens == { ToString(n) : n \in Numbers }
NumberOf(tok) == CHOOSE n \in Numbers : ToString(n) = tok
StringTokens == { Quote(s) : s \in {"Item", "Count", "Key", "x"} }
ValueTokens == NumberTokens \cup StringTokens \cup {"null"}

\* the members of an object, between its braces: key : value , key : value
ValidMembers(m) ==
    \/ Len(m) = 0
    \/ /\ Len(m) % 4 = 3
       /\ \A i \in 1..Len(m) :
            CASE i % 4 = 1 -> m[i] \in StringTokens
              [] i % 4 = 2 -> m[i] = ":"
              [] i % 4 = 3 -> m[i] \in ValueTokens
              [] OTHER     -> m[i] = ","

\* json.checkValid: Unmarshal scans the whole input before it decodes any of it
CheckValid(data) ==
    \/ data = <<"null">>
    \/ /\ Len(data) >= 2
       /\ data[1] = "{"
       /\ data[Len(data)] = "}"
       /\ ValidMembers(SubSeq(data, 2, Len(data) - 1))

\* the result struct dest points to
DestFields == {"Item", "Count"}
DestValues == { [Item |-> 0, Count |-> 0], [Item |-> MaxKey + 1, Count |-> MaxKey + 1] }

\* decode one member into the struct: a number is stored, null leaves the
\* field alone, a string for a number field is a type error that is saved
\* (the first one only) while decoding goes on; unknown keys are skipped
DecodeMember(st, key, val) ==
    IF \E f \in DestFields : Quote(f) = key
    THEN LET f == CHOOSE g \in DestFields : Quote(g) = key IN
         CASE val \in NumberTokens -> [st EXCEPT !.dest[f] = NumberOf(val)]
           [] val = "null"         -> st
           [] OTHER                -> [st EXCEPT !.err = IF st.err = Nil THEN ErrType ELSE st.err]
    ELSE st

RECURSIVE DecodeMembers(_, _)
DecodeMembers(st, m) ==
    IF Len(m) < 3 THEN st
    ELSE DecodeMembers(DecodeMember(st, m[1], m[3]), SubSeq(m, 5, Len(m)))

\* json.Unmarshal(data, dest), executor.go:111
Unmarshal(data, d) ==
    IF ~CheckValid(data) THEN [dest |-> d, err |-> ErrSyntax]
    ELSE IF data = <<"null">> THEN [dest |-> d, err |-> Nil]
    ELSE DecodeMembers([dest |-> d, err |-> Nil], SubSeq(data, 2, Len(data) - 1))

-----------------------------------------------------------------------------
(* The requester behind the interface, executor.go:39-41 *)

Methods == {"GetItem", "ListTables"}

\* what a successful requester may answer to the body it was sent: a full
\* result naming the key asked for, a result whose first member has the wrong
\* type, or a result cut short
KeyToken(sent) == IF Len(sent) = 5 THEN sent[4] ELSE "0"
RespFull(sent) == <<"{", Quote("Item"), ":", KeyToken(sent), ",", Quote("Count"), ":", "1", "}">>
RespBadType(sent) == <<"{", Quote("Item"), ":", Quote("x"), ",", Quote("Count"), ":", "1", "}">>
RespCut(sent) == <<"{", Quote("Item"), ":", KeyToken(sent)>>

\* AwsRequester.MakeRequest(target, body) ([]byte, error): every outcome the
\* interface allows, an error with a body beside it included
MakeRequestOutcomes(target, sent) ==
    { [body |-> b, err |-> Nil] :
        b \in {RespFull(sent), RespBadType(sent), RespCut(sent)} }
    \cup { [body |-> NilBytes, err |-> ErrRequester],
           [body |-> RespFull(sent), err |-> ErrRequester] }

-----------------------------------------------------------------------------
(* State *)

NoIface == Iface(Nil, [type |-> Nil, addr |-> 0])
NoDocument == [None |-> TRUE]
\* the call was made on the executor itself
NoView == [AwsExecutor |-> 0]
WriterIdle == [pc |-> "idle", e |-> 0, val |-> NoIface, rest |-> Nil]
NoDest == [Item |-> 0, Count |-> 0]
\* MakeRequest has not returned yet
NoResp == [body |-> NilBytes, err |-> "pending"]

InitCalls ==
    /\ pc = [p \in Procs |-> "idle"]
    /\ recv = [p \in Procs |-> 0]
    /\ via = [p \in Procs |-> NoView]
    /\ raced = [p \in Procs |-> FALSE]
    /\ method = [p \in Procs |-> Nil]
    /\ document = [p \in Procs |-> NoDocument]
    /\ dest = [p \in Procs |-> NoDest]
    /\ dest0 = [p \in Procs |-> NoDest]
    /\ buf = [p \in Procs |-> NilBytes]
    /\ req = [p \in Procs |-> NoIface]
    /\ body = [p \in Procs |-> NilBytes]
    /\ err = [p \in Procs |-> Nil]
    /\ invocations = [p \in Procs |-> <<>>]
    /\ unmarshaled = [p \in Procs |-> <<>>]

\* nothing constructed yet
InitEmpty ==
    /\ callerConfig \in ExecutorConfig
    /\ executors = <<>>
    /\ requestMakers = <<>>
    /\ signers = <<>>
    /\ constructed = <<>>
    /\ views = {}
    /\ viewOrigin = {}
    /\ writer = WriterIdle
    /\ InitCalls

-----------------------------------------------------------------------------
(* Construction *)

\* the caller assigns its own config variable
SetCallerConfig ==
    /\ \E c \in ExecutorConfig \ {callerConfig} : callerConfig' = c
    /\ UNCHANGED <<heapVars, viewVars, writer, callVars>>

\* NewAwsExecutor(callerConfig), executor.go:57-78
NewAwsExecutor ==
    /\ Len(executors) < MaxExecutors
    /\ LET config == callerConfig
           addr == Len(executors) + 1
       IN /\ signers' = Append(signers, AwsSigner(config))
          /\ requestMakers' = Append(requestMakers, RequestMaker(config, addr))
          /\ executors' = Append(executors, AwsExecutor(addr))
          /\ constructed' = Append(constructed,
                                   [config |-> config, fixArg |-> FixEndpointArg(config)])
          /\ callerConfig' = CallerConfigAfter(config, LocalConfig(config))
    /\ UNCHANGED <<viewVars, writer, callVars>>
\* a slip in line 117: the view holds the first executor, not its receiver
awsSchemaExecutorFirst(e) == [AwsExecutor |-> 1]

\* executor.go:117: awsSchemaExecutor{e}, holding the pointer e
awsSchemaExecutor(e) == [AwsExecutor |-> e]

\* e.SchemaExecutor(), executor.go:116-118
SchemaExecutor(e) ==
    /\ views' = views \cup {awsSchemaExecutor(e)}
    /\ viewOrigin' = viewOrigin \cup {<<awsSchemaExecutor(e), e>>}
    /\ UNCHANGED <<callerConfig, heapVars, writer, callVars>>

-----------------------------------------------------------------------------
(* Assigning the exported field Requester, executor.go:84-88.  The field is  *)
(* two words and the assignment is not atomic: it stores one word, then the *)
(* other, in an order the build chooses.                                    *)

\* every requester there is
RequesterValues ==
    { Iface(TypeFake, FakePtr(f)) : f \in FakeRequesters }
    \cup { Iface(TypeRequestMaker, RequestMakerPtr(a)) : a \in DOMAIN requestMakers }

\* what callers assign to executor e: a requester of their own, and the
\* executor's first requester to put it back
Assignable(e) ==
    { Iface(TypeFake, FakePtr(f)) : f \in FakeRequesters }
    \cup { Iface(TypeRequestMaker, RequestMakerPtr(e)) }

StoreWord(v, word, new) ==
    IF word = "tab" THEN Iface(new.tab, v.data) ELSE Iface(v.tab, new.data)

OtherWord(word) == IF word = "tab" THEN "data" ELSE "tab"

\* goroutine p has read one word of executor e's Requester and not yet the other
Loading(p, e) == pc[p] \in {"loadTab", "loadData"} /\ recv[p] = e

SetRequesterBegin(e, val, first) ==
    /\ writer.pc = "idle"
    /\ val # executors[e].Requester
    /\ executors' = [executors EXCEPT ![e].Requester = StoreWord(@, first, val)]
    /\ writer' = [pc |-> "mid", e |-> e, val |-> val, rest |-> OtherWord(first)]
    /\ raced' = [p \in Procs |-> raced[p] \/ Loading(p, e)]
    /\ UNCHANGED <<callerConfig, requestMakers, signers, constructed, viewVars,
                   pc, recv, via, method, document, dest, dest0, buf, req, body,
                   err, invocations, unmarshaled>>

SetRequesterEnd ==
    /\ writer.pc = "mid"
    /\ executors' = [executors EXCEPT ![writer.e].Requester = StoreWord(@, writer.rest, writer.val)]
    /\ writer' = WriterIdle
    /\ raced' = [p \in Procs |-> raced[p] \/ Loading(p, writer.e)]
    /\ UNCHANGED <<callerConfig, requestMakers, signers, constructed, viewVars,
                   pc, recv, via, method, document, dest, dest0, buf, req, body,
                   err, invocations, unmarshaled>>

-----------------------------------------------------------------------------
(* MakeRequestUnmarshal and makeRequest, executor.go:91-113 *)
\* a slip in line 93: the marshaling error is not looked at
MarshalFailedIgnored(r) == FALSE

\* executor.go:93: err != nil after json.Marshal
MarshalFailed(r) == r.err # Nil
\* a slip in line 96: the target is rewritten on its way to the requester
MakeRequestTargetPrefixed(p) == "DynamoDB_20120810." \o method[p]

\* executor.go:96 and 107: the target passed on to MakeRequest
MakeRequestTarget(p) == method[p]
\* a slip in line 96: the body is taken from a buffer the calls share
MakeRequestBodyShared(p) == buf[CHOOSE q \in Procs : pc[q] # "idle"]

\* executor.go:96: the body passed on to MakeRequest
MakeRequestBody(p) == buf[p]
\* a slip in line 96: the request is sent a second time
InvokeTwice(log, call) == Append(Append(log, call), call)

\* executor.go:96: the one call of e.Requester.MakeRequest
Invoke(log, call) == Append(log, call)
\* a slip in lines 108-109: the requester's error is replaced by another
AfterRequestWrapErr(out, d) ==
    IF out.err # Nil
    THEN [dest |-> d, err |-> "wrapped: " \o out.err, unmarshaled |-> <<>>]
    ELSE LET r == Unmarshal(out.body, d)
         IN [dest |-> r.dest, err |-> r.err, unmarshaled |-> <<out.body>>]

\* a slip in lines 111-112: the error of json.Unmarshal is dropped
AfterRequestDropErr(out, d) ==
    IF out.err # Nil
    THEN [dest |-> d, err |-> out.err, unmarshaled |-> <<>>]
    ELSE LET r == Unmarshal(out.body, d)
         IN [dest |-> r.dest, err |-> Nil, unmarshaled |-> <<out.body>>]

\* executor.go:107-113 once makeRequest has returned `out`: the error is
\* returned as it is, or the body is unmarshaled into dest and the error of
\* that returned
AfterRequest(out, d) ==
    IF out.err # Nil
    THEN [dest |-> d, err |-> out.err, unmarshaled |-> <<>>]
    ELSE LET r == Unmarshal(out.body, d)
         IN [dest |-> r.dest, err |-> r.err, unmarshaled |-> <<out.body>>]

\* executor.go:106-107, 92-95: the call starts and marshals document; a
\* marshaling error is returned through lines 94 and 109
Begin(p, e, v, m, d, dst) ==
    /\ pc[p] = "idle"
    /\ LET r == Marshal(d)
       IN /\ buf' = [buf EXCEPT ![p] = r.buf]
          /\ IF MarshalFailed(r)
             THEN /\ err' = [err EXCEPT ![p] = r.err]
                  /\ pc' = [pc EXCEPT ![p] = "done"]
             ELSE /\ err' = [err EXCEPT ![p] = Nil]
                  /\ pc' = [pc EXCEPT ![p] = "load"]
    /\ recv' = [recv EXCEPT ![p] = e]
    /\ via' = [via EXCEPT ![p] = v]
    /\ raced' = [raced EXCEPT ![p] = FALSE]
    /\ method' = [method EXCEPT ![p] = m]
    /\ document' = [document EXCEPT ![p] = d]
    /\ dest' = [dest EXCEPT ![p] = dst]
    /\ dest0' = [dest0 EXCEPT ![p] = dst]
    /\ req' = [req EXCEPT ![p] = NoIface]
    /\ body' = [body EXCEPT ![p] = NilBytes]
    /\ invocations' = [invocations EXCEPT ![p] = <<>>]
    /\ unmarshaled' = [unmarshaled EXCEPT ![p] = <<>>]
    /\ UNCHANGED <<callerConfig, heapVars, viewVars, writer>>

\* e.MakeRequestUnmarshal(method, document, dest) on an executor
MakeRequestUnmarshal(p) ==
    \E e \in DOMAIN executors, m \in Methods,
       d \in Documents \cup {Unmarshalable}, dst \in DestValues :
        Begin(p, e, NoView, m, d, dst)

\* the same call made through a schema view, whose methods reach
\* MakeRequestUnmarshal of the executor the view holds
SchemaCall(p) ==
    \E v \in views, m \in Methods,
       d \in Documents \cup {Unmarshalable}, dst \in DestValues :
        Begin(p, v.AwsExecutor, v, m, d, dst)

\* executor.go:96: e.Requester is read, one word and then the other
LoadFirst(p, word) ==
    /\ pc[p] = "load"
    /\ req' = [req EXCEPT ![p] = StoreWord(NoIface, word, executors[recv[p]].Requester)]
    /\ pc' = [pc EXCEPT ![p] = IF word = "tab" THEN "loadData" ELSE "loadTab"]
    /\ raced' = [raced EXCEPT ![p] = writer.pc = "mid" /\ writer.e = recv[p]]
    /\ UNCHANGED <<callerConfig, heapVars, viewVars, writer, recv, via, method,
                   document, dest, dest0, buf, body, err, invocations, unmarshaled>>

\* executor.go:96: the second word is read and MakeRequest is called
LoadSecond(p) ==
    /\ pc[p] \in {"loadTab", "loadData"}
    /\ LET word == IF pc[p] = "loadTab" THEN "tab" ELSE "data"
           r == StoreWord(req[p], word, executors[recv[p]].Requester)
       IN /\ req' = [req EXCEPT ![p] = r]
          /\ invocations' = [invocations EXCEPT ![p] =
                Invoke(@, [req |-> r, target |-> MakeRequestTarget(p),
                           body |-> MakeRequestBody(p), resp |-> NoResp])]
    /\ pc' = [pc EXCEPT ![p] = "inflight"]
    /\ raced' = [raced EXCEPT ![p] = @ \/ (writer.pc = "mid" /\ writer.e = recv[p])]
    /\ UNCHANGED <<callerConfig, heapVars, viewVars, writer, recv, via, method,
                   document, dest, dest0, buf, body, err, unmarshaled>>

\* MakeRequest returns and lines 107-113 run to the return
Complete(p) ==
    /\ pc[p] = "inflight"
    /\ LET n == Len(invocations[p])
           call == invocations[p][n]
       IN \E out \in MakeRequestOutcomes(call.target, call.body) :
            LET r == AfterRequest(out, dest[p])
            IN /\ invocations' = [invocations EXCEPT ![p][n].resp = out]
               /\ body' = [body EXCEPT ![p] = out.body]
               /\ err' = [err EXCEPT ![p] = r.err]
               /\ dest' = [dest EXCEPT ![p] = r.dest]
               /\ unmarshaled' = [unmarshaled EXCEPT ![p] = r.unmarshaled]
    /\ pc' = [pc EXCEPT ![p] = "done"]
    /\ UNCHANGED <<callerConfig, heapVars, viewVars, writer, recv, via, raced,
                   method, document, dest0, buf, req>>

\* a method called on an interface value whose words do not belong together
\* runs one type's code on another type's data: besides any answer, the
\* program may die
Crash(p) ==
    /\ pc[p] = "inflight"
    /\ ~WellFormed(req[p])
    /\ pc' = [q \in Procs |-> "crashed"]
    /\ UNCHANGED <<callerConfig, heapVars, viewVars, writer, recv, via, raced,
                   method, document, dest, dest0, buf, req, body, err,
                   invocations, unmarshaled>>

\* the caller has taken the result; the goroutine may call again
Return(p) ==
    /\ pc[p] = "done"
    /\ pc' = [pc EXCEPT ![p] = "idle"]
    /\ recv' = [recv EXCEPT ![p] = 0]
    /\ via' = [via EXCEPT ![p] = NoView]
    /\ raced' = [raced EXCEPT ![p] = FALSE]
    /\ method' = [method EXCEPT ![p] = Nil]
    /\ document' = [document EXCEPT ![p] = NoDocument]
    /\ dest' = [dest EXCEPT ![p] = NoDest]
    /\ dest0' = [dest0 EXCEPT ![p] = NoDest]
    /\ buf' = [buf EXCEPT ![p] = NilBytes]
    /\ req' = [req EXCEPT ![p] = NoIface]
    /\ body' = [body EXCEPT ![p] = NilBytes]
    /\ err' = [err EXCEPT ![p] = Nil]
    /\ invocations' = [invocations EXCEPT ![p] = <<>>]
    /\ unmarshaled' = [unmarshaled EXCEPT ![p] = <<>>]
    /\ UNCHANGED <<callerConfig, heapVars, viewVars, writer>>

\* the steps of a call after its start
CallStep(p) ==
    \/ \E word \in {"tab", "data"} : LoadFirst(p, word)
    \/ LoadSecond(p)
    \/ Complete(p)
    \/ Return(p)

SetRequester ==
    \/ \E e \in DOMAIN executors, first \in {"tab", "data"} :
          \E val \in Assignable(e) : SetRequesterBegin(e, val, first)
    \/ SetRequesterEnd

-----------------------------------------------------------------------------
(* Specifications *)

\* the heap after NewAwsExecutor has run once for each config of cs, in order
InitBuilt(cs) ==
    /\ callerConfig = cs[Len(cs)]
    /\ executors = [a \in 1..Len(cs) |-> AwsExecutor(a)]
    /\ requestMakers = [a \in 1..Len(cs) |-> RequestMaker(cs[a], a)]
    /\ signers = [a \in 1..Len(cs) |-> AwsSigner(cs[a])]
    /\ constructed = [a \in 1..Len(cs) |->
                        [config |-> cs[a], fixArg |-> FixEndpointArg(cs[a])]]
    /\ views = {}
    /\ viewOrigin = {}
    /\ writer = WriterIdle
    /\ InitCalls

SomeConfig ==
    [Region |-> "us-east-1", AccessKey |-> "AKIA1", SecretKey |-> "secret1",
     SessionToken |-> "", Endpoint |-> ""]

Init == InitBuilt(<<SomeConfig>>)

\* the two goroutines that call while a third assigns Requester
Racers == {1, 2}

\* Two concurrent calls on one executor whose Requester may be assigned at
\* any moment
Next ==
    \/ SetRequester
    \/ \E p \in Racers : MakeRequestUnmarshal(p) \/ CallStep(p) \/ Crash(p)

Spec == Init /\ [][Next]_vars

\* Concurrent calls on one executor whose Requester is left alone
NextCalls == \E p \in Procs : MakeRequestUnmarshal(p) \/ CallStep(p)

SpecCalls == Init /\ [][NextCalls]_vars

\* Calls by one goroutine on one executor whose Requester may be assigned
NextSeq ==
    \/ SetRequester
    \/ MakeRequestUnmarshal(1)
    \/ CallStep(1)
    \/ Crash(1)

SpecSeq == Init /\ [][NextSeq]_vars

\* Construction from any config, schema views, and calls by one goroutine
NextConfig ==
    \/ SetCallerConfig
    \/ NewAwsExecutor
    \/ \E e \in DOMAIN executors : SchemaExecutor(e)
    \/ MakeRequestUnmarshal(1)
    \/ CallStep(1)

SpecConfig == InitEmpty /\ [][NextConfig]_vars

\* Schema views of several executors whose Requester may be assigned
InitSchema == InitBuilt([a \in 1..MaxExecutors |-> SomeConfig])

NextSchema ==
    \/ \E e \in DOMAIN executors : SchemaExecutor(e)
    \/ SetRequester
    \/ SchemaCall(1)
    \/ CallStep(1)
    \/ Crash(1)

SpecSchema == InitSchema /\ [][NextSchema]_vars

-----------------------------------------------------------------------------
(* Properties *)

\* the call of goroutine p has reached MakeRequest
Invoked(p) == pc[p] \in {"inflight", "done"} /\ document[p] # Unmarshalable

\* the call of goroutine p has returned after MakeRequest answered
Answered(p) == pc[p] = "done" /\ document[p] # Unmarshalable

\* what MakeRequest returned to the call of goroutine p
Resp(p) == invocations[p][Len(invocations[p])].resp

\* the positions of the keys of an object's members in its tokens
KeyPositions(data) == { i \in 2..(Len(data) - 2) : i % 4 = 2 }

\* the value a response gives field f: the number of its last member named
\* f that holds a number, and the field's old value when there is none
Expected(data, f, old) ==
    LET at == { i \in KeyPositions(data) :
                  data[i] = Quote(f) /\ data[i + 2] \in NumberTokens }
    IN IF at = {} THEN old
       ELSE NumberOf(data[(CHOOSE i \in at : \A j \in at : j <= i) + 2])

\* dest of goroutine p holds every member the response gave it
Populated(p) ==
    \A f \in DestFields : dest[p][f] = Expected(Resp(p).body, f, dest0[p][f])

\* C1: the endpoint handed to aws.FixEndpointUrl is the configured Endpoint
\* when that is not empty, and "https://dynamodb." + Region +
\* ".amazonaws.com/" when it is empty ("us-east-1" giving
\* "https://dynamodb.us-east-1.amazonaws.com/"); the requester's Endpoint is
\* what FixEndpointUrl makes of it.
C1_EndpointDerivation ==
    \A a \in DOMAIN constructed :
        LET c == constructed[a].config
            arg == constructed[a].fixArg
        IN /\ c.Endpoint = "" =>
                arg = "https://dynamodb." \o c.Region \o ".amazonaws.com/"
           /\ (c.Endpoint = "" /\ c.Region = "us-east-1") =>
                arg = "https://dynamodb.us-east-1.amazonaws.com/"
           /\ c.Endpoint # "" => arg = c.Endpoint
           /\ requestMakers[a].Endpoint = FixEndpointUrl(arg)

C1_Witness ==
    /\ Len(constructed) = 2
    /\ constructed[1].config.Endpoint = ""
    /\ constructed[1].config.Region = "us-east-1"
    /\ constructed[2].config.Endpoint # ""
    /\ constructed[2].config.Region = "us-east-1"

\* C2 as stated: a call whose document marshaled invokes exactly one
\* requester, once, also when Requester is assigned during the call.
C2_OneRequesterOnce ==
    \A p \in Procs :
        Invoked(p) =>
            /\ Len(invocations[p]) = 1
            /\ invocations[p][1].req \in RequesterValues

\* C2 amended: a call whose document marshaled invokes MakeRequest exactly
\* once, whatever the outcome and whatever else runs; the value it is invoked
\* on is the requester the field held unless an assignment of Requester
\* overlapped the call's read of the field.
C2_OneAttempt ==
    \A p \in Procs :
        /\ Invoked(p) =>
             /\ Len(invocations[p]) = 1
             /\ ~raced[p] => invocations[p][1].req \in RequesterValues
        /\ pc[p] \in {"load", "loadTab", "loadData"} => invocations[p] = <<>>

C2_Witness ==
    \E p, q \in Procs :
        /\ p # q
        /\ Answered(p) /\ ~raced[p] /\ req[p].tab = TypeFake
        /\ Len(invocations[p]) = 1
        /\ Answered(q) /\ raced[q] /\ ~WellFormed(req[q])
        /\ Len(invocations[q]) = 1

\* C3: when the document cannot be marshaled the call returns the marshaling
\* error, MakeRequest is never invoked for it, and dest is not written.
C3_MarshalFailure ==
    \A p \in Procs :
        document[p] = Unmarshalable =>
            /\ pc[p] \in {"done", "crashed"}
            /\ err[p] = ErrMarshal
            /\ invocations[p] = <<>>
            /\ unmarshaled[p] = <<>>
            /\ dest[p] = dest0[p]

C3_Witness ==
    \E p \in Procs :
        /\ pc[p] = "done"
        /\ document[p] = Unmarshalable
        /\ dest0[p] # NoDest

\* C4: when MakeRequest returns an error the call returns that error as it
\* is, unmarshals nothing, and leaves dest as it was.
C4_RequesterError ==
    \A p \in Procs :
        (Answered(p) /\ Resp(p).err # Nil) =>
            /\ err[p] = Resp(p).err
            /\ unmarshaled[p] = <<>>
            /\ dest[p] = dest0[p]

C4_Witness ==
    \E p \in Procs :
        /\ Answered(p)
        /\ Resp(p).err = ErrRequester
        /\ Resp(p).body # NilBytes

\* C5: a call returns no error and dest populated from the response, or an
\* error and dest holding nothing the failed call wrote, whether the failure
\* is of json.Marshal, of the requester or of json.Unmarshal.
C5_ResultOrError ==
    \A p \in Procs :
        pc[p] = "done" =>
            \/ err[p] = Nil /\ Answered(p) /\ Populated(p)
            \/ err[p] # Nil /\ dest[p] = dest0[p]

\* C6: of two calls running at once on one executor with different
\* documents, each hands MakeRequest its own target and the body marshaled
\* from its own document, and on success each dest is filled from the
\* response to its own invocation.
C6_Isolation ==
    \A p, q \in Procs :
        (p # q /\ Invoked(p) /\ Invoked(q) /\ recv[p] = recv[q]
              /\ document[p] # document[q]) =>
            /\ \A i \in DOMAIN invocations[p] :
                 /\ invocations[p][i].target = method[p]
                 /\ invocations[p][i].body = Marshal(document[p]).buf
                 /\ invocations[p][i].body # Marshal(document[q]).buf
            /\ (pc[p] = "done" /\ err[p] = Nil) =>
                 dest[p] = Unmarshal(Resp(p).body, dest0[p]).dest
            /\ (pc[p] = "done" /\ err[p] = Nil) =>
                 dest[p].Item = document[p].Key

C6_Witness ==
    \E p, q \in Procs :
        /\ p # q
        /\ pc[p] = "done" /\ pc[q] = "done"
        /\ recv[p] = recv[q]
        /\ err[p] = Nil /\ err[q] = Nil
        /\ document[p] \in Documents /\ document[q] \in Documents
        /\ document[p] # document[q]
        /\ method[p] # method[q]
        /\ dest[p].Item # dest[q].Item

\* C7: the signer holds the Region, AccessKey, SecretKey and SessionToken of
\* the config NewAwsExecutor was called with and the Service "dynamodb";
\* NewAwsExecutor leaves the caller's config alone; and no later step,
\* a change of the caller's config included, changes a signer or a
\* requester's Endpoint.
C7_FixedAtConstruction ==
    [][ /\ \A a \in DOMAIN signers :
             /\ signers'[a] = signers[a]
             /\ requestMakers'[a].Endpoint = requestMakers[a].Endpoint
             /\ requestMakers'[a].Signer = a
        /\ Len(executors') > Len(executors) =>
             LET a == Len(executors')
             IN /\ signers'[a].Region = callerConfig.Region
                /\ signers'[a].AccessKey = callerConfig.AccessKey
                /\ signers'[a].SecretKey = callerConfig.SecretKey
                /\ signers'[a].SessionToken = callerConfig.SessionToken
                /\ signers'[a].Service = "dynamodb"
                /\ callerConfig' = callerConfig
      ]_vars

C7_Witness ==
    /\ Len(signers) = 2
    /\ signers[1].SessionToken = "token2"
    /\ constructed[1].config.Endpoint = ""
    /\ callerConfig.SessionToken = ""
    /\ callerConfig.Region # signers[1].Region
    /\ views # {}
    /\ Answered(1)

\* C8: when MakeRequest succeeds and its answer cannot be parsed into dest
\* the call returns the error of json.Unmarshal: not nil and not an error of
\* the requester.
C8_UnmarshalError ==
    \A p \in Procs :
        (Answered(p) /\ Resp(p).err = Nil
            /\ Resp(p).body \in {RespCut(buf[p]), RespBadType(buf[p])}) =>
            /\ err[p] \in {ErrSyntax, ErrType}
            /\ err[p] = (IF Resp(p).body = RespCut(buf[p]) THEN ErrSyntax ELSE ErrType)
            /\ unmarshaled[p] = <<Resp(p).body>>

C8_Witness ==
    \E p \in Procs :
        /\ Answered(p)
        /\ Resp(p).err = Nil
        /\ err[p] = ErrSyntax
        /\ dest0[p] # NoDest

\* C9: MakeRequest is invoked with the target equal to method as given and
\* the body equal to the bytes json.Marshal made of document, and on its
\* success the bytes unmarshaled into dest are the bytes it returned.
C9_PassThrough ==
    \A p \in Procs :
        /\ Invoked(p) =>
             \A i \in DOMAIN invocations[p] :
                 /\ invocations[p][i].target = method[p]
                 /\ invocations[p][i].body =
                       <<"{", "\"Key\"", ":", ToString(document[p].Key), "}">>
        /\ (Answered(p) /\ Resp(p).err = Nil) =>
             unmarshaled[p] = <<Resp(p).body>>

C9_Witness ==
    \E p \in Procs :
        /\ Answered(p)
        /\ Resp(p).err = Nil
        /\ method[p] = "ListTables"
        /\ document[p].Key = MaxKey
        /\ err[p] = Nil
        /\ dest[p].Item = MaxKey

\* C10: a schema view holds the executor it was obtained from, so a call
\* made through it uses the requester that executor's Requester field holds,
\* also after the field was assigned; SchemaExecutor creates no requester or
\* signer and leaves every executor as it was.
C10_SchemaSharesExecutor ==
    [][ /\ \A vo \in viewOrigin' : vo[1].AwsExecutor = vo[2]
        /\ \A p \in Procs :
             /\ \A vo \in viewOrigin' : vo[1] = via'[p] => recv'[p] = vo[2]
             /\ (via[p] # NoView /\ pc[p] # "inflight" /\ pc'[p] = "inflight"
                    /\ ~raced'[p]) =>
                  \A vo \in viewOrigin : vo[1] = via[p] =>
                      invocations'[p][1].req = executors[vo[2]].Requester
        /\ viewOrigin' # viewOrigin =>
             /\ executors' = executors
             /\ requestMakers' = requestMakers
             /\ signers' = signers
      ]_vars

C10_Witness ==
    /\ Cardinality(views) = MaxExecutors
    /\ <<via[1], MaxExecutors>> \in viewOrigin
    /\ pc[1] = "inflight"
    /\ ~raced[1]
    /\ req[1].tab = TypeFake
    /\ executors[1].Requester.tab = TypeRequestMaker

====
